---- MODULE Spec2Model ----
(***************************************************************************)
(* Joypad drivers of RetroArch: the Apple slot registry and dispatcher     *)
(* (apple_joypad), the XInput driver (xinput_joypad.c) and the DirectInput *)
(* driver (dinput_joypad.c) it cooperates with.                            *)
(*                                                                         *)
(* One behaviour is one build of the program: `build' is fixed by Init and *)
(* selects which driver's operations run.                                  *)
(***************************************************************************)
EXTENDS Integers, Sequences, FiniteSets, TLC

(***************************************************************************)
(* Bounds of the model.                                                    *)
(***************************************************************************)
\* MAX_PLAYERS: size of slots[] (a program constant whose header is not part
\* of the sources; the model keeps it small).
MAX_PLAYERS == 2
\* MAX_USERS: size of g_pads[] and g_xinput_pad_indexes[] (likewise; it is
\* larger than the number of XInput users).
MAX_USERS == 5
\* Highest XInput user a controller is ever plugged in as.
MaxXUser == 0
\* Controllers that are not XInput devices.
MaxPlain == 1
\* Highest pad index xinput_joypad_rumble is called with (besides the one
\* past the end).
MaxRumblePad == 0
\* Controllers DirectInput classifies as XInput devices beyond the four that
\* XInput serves as users.
MaxExtraX == 1
\* queries are asked of pads 0 .. MaxQueryPad and of one index past the table
MaxQueryPad == 1
\* Highest XInput user a controller is plugged in as on the build without
\* DirectInput, when followed through plugging and polling alone.
MaxUwpUser == 1

(***************************************************************************)
(* Program constants.                                                      *)
(***************************************************************************)
\* joykey < 32 : width of apple->buttons[port]
BUTTON_BITS == 32
\* AXIS_NEG_GET(joyaxis) < 4 : axes per pad
NUM_AXES == 4
\* find_vacant_pad's failure value
NO_PAD == -1
\* g_xinput_states[4], g_xinput_rumble_states[4]
XUSER_MAX_COUNT == 4
\* g_xinput_pad_indexes[] entry of a pad that is not an XInput device
NOT_XINPUT == -1
\* a NULL name
NULL_NAME == 0
\* XBOX_CONTROLLER_NAME, "XInput Controller"
XBOX_CONTROLLER_NAME == -1
\* a NULL g_pads[i].joypad
NO_DEVICE == -1

\* input_common.h: key and axis encodings
NO_BTN == 2^16 - 1
GET_HAT_DIR(joykey) == (joykey \div 2^12) % 2^4
HAT_UP_KEY == 2^15
\* a uint32_t joyaxis, by its two 16-bit halves
JoyAxis(neg, pos) == [neg |-> neg, pos |-> pos]
AXIS_NONE == JoyAxis(2^16 - 1, 2^16 - 1)
AXIS_NEG_GET(joyaxis) == joyaxis.neg
AXIS_POS_GET(joyaxis) == joyaxis.pos
AXIS_NEG(a) == JoyAxis(a, 2^16 - 1)
AXIS_POS(a) == JoyAxis(2^16 - 1, a)

\* libretro.h: enum retro_rumble_effect
RumbleEffects == {"RETRO_RUMBLE_STRONG", "RETRO_RUMBLE_WEAK"}
\* uint16_t strength: off and full
Strengths == {0, 2^16 - 1}

\* apple_ios: the Apple driver.  win32: xinput_joypad.c with HAVE_DINPUT and
\* HAVE_DYNAMIC.  uwp: xinput_joypad.c with __WINRT__ and without HAVE_DINPUT.
Builds == {"apple_ios", "win32", "uwp"}

VARIABLES
    build,          \* which driver this build runs
    \* ---- apple_joypad ----
    slots,          \* static joypad_slot_t slots[MAX_PLAYERS]
    input_data,     \* driver.input_data != NULL
    apple_buttons,  \* apple->buttons[port]
    apple_axes,     \* apple->axes[port][0..3]
    iface_caps,     \* which optional functions each pad_connection_interface has
    \* ---- the controllers (environment) ----
    attached,       \* devices plugged in: 0..3 the XInput users, above the others
    hw_state,       \* what the controls of each XInput device report
    seen,           \* DirectInput-only devices that were plugged in when the
                    \* driver last looked (init or poll)
    \* ---- xinput_joypad.c ----
    active,         \* init returned true and destroy has not run since
    g_xinput_dll,
    g_XInputGetStateEx,
    g_XInputSetState,
    g_xinput_states,
    g_xinput_rumble_states,
    \* ---- dinput_joypad.c ----
    g_xinput_block_pads,
    g_xinput_pad_indexes,
    g_last_xinput_pad_idx,
    g_pads,
    g_joypad_cnt,
    \* ---- what the last operation did ----
    op,             \* the operation and its arguments
    ret,            \* its return value (C int; false = 0, NULL name = 0)
    calls,          \* calls it made into backends and collaborators, in order
    reads           \* per-pad table entries it read, hardware polls it made

appleVars == <<slots, input_data, apple_buttons, apple_axes, iface_caps>>
obsVars   == <<op, ret, calls, reads>>
envVars   == <<attached, hw_state, seen>>
xinputVars == <<active, g_xinput_dll, g_XInputGetStateEx, g_XInputSetState,
                g_xinput_states, g_xinput_rumble_states>>
dinputVars == <<g_xinput_block_pads, g_xinput_pad_indexes, g_last_xinput_pad_idx,
                g_pads, g_joypad_cnt>>
winVars   == <<envVars, xinputVars, dinputVars>>
vars      == <<build, appleVars, winVars, obsVars>>

(***************************************************************************)
(* apple_joypad: data                                                      *)
(***************************************************************************)
PadIdx == 0 .. MAX_PLAYERS - 1
\* unsigned pad arguments: every valid index and one past the end
PadArgs == 0 .. MAX_PLAYERS

Ifaces == {"apple_pad_wii", "apple_pad_ps3"}
NoIface == "NULL"
NoHandle == [iface |-> NoIface, pad |-> NO_PAD]
Handle(iface, pad) == [iface |-> iface, pad |-> pad]

\* memset(&slots[i], 0, sizeof(slots[0]))
ZeroSlot == [used |-> FALSE, iface |-> NoIface, data |-> NoHandle, is_gcapi |-> FALSE]

\* pad_map[] of joypad_connection_connect, in table order
pad_map == << [name |-> "Nintendo RVL-CNT-01", iface |-> "apple_pad_wii"],
              [name |-> "PLAYSTATION(R)3 Controller", iface |-> "apple_pad_ps3"] >>
PadMapNames == {pad_map[i].name : i \in DOMAIN pad_map}

\* A device name, by the pad_map entries it contains; isnull: name == NULL
Names == [isnull : {FALSE}, has : SUBSET PadMapNames] \cup {[isnull |-> TRUE, has |-> {}]}
strstr(name, pat) == pat \in name.has

AxisVals == {-1, 0, 1}
ZeroAxes == [a \in 0 .. NUM_AXES - 1 |-> 0]
Axis0(v) == [a \in 0 .. NUM_AXES - 1 |-> IF a = 0 THEN v ELSE 0]
\* raw pad states the hardware reports: idle, button 0 with stick 0 pushed one
\* way, stick 0 pushed the other way
Snapshots == { [buttons |-> 0, axes |-> ZeroAxes],
               [buttons |-> 1, axes |-> Axis0(1)],
               [buttons |-> 0, axes |-> Axis0(-1)] }

Bit(word, k) == (word \div 2^k) % 2

JoyKeys == {0, BUTTON_BITS, HAT_UP_KEY, NO_BTN}
JoyAxes == {AXIS_NEG(0), AXIS_POS(0), AXIS_NEG(NUM_AXES), AXIS_NONE}

NoEffect == "none"
Call(fn, h, pad, effect, strength) ==
    [fn |-> fn, h |-> h, pad |-> pad, effect |-> effect, strength |-> strength]

Op(name, pad, arg) == [name |-> name, pad |-> pad, arg |-> arg]

HasCap(iface, fn) == iface # NoIface /\ fn \in iface_caps[iface]

(***************************************************************************)
(* apple_joypad: the slot registry                                         *)
(***************************************************************************)
VacantPads == {i \in PadIdx : ~slots[i].used}
Lowest(S) == CHOOSE i \in S : \A j \in S : i <= j

\* find_vacant_pad without the failure value: a full registry hands out its
\* last slot again
find_vacant_pad_overwrite ==
    IF VacantPads = {} THEN MAX_PLAYERS - 1 ELSE Lowest(VacantPads)

\* find_vacant_pad scanning from the top of the array
find_vacant_pad_highest ==
    IF VacantPads = {} THEN NO_PAD
    ELSE CHOOSE i \in VacantPads : \A j \in VacantPads : j <= i

\* find_vacant_pad: the index it returns (NO_PAD when every slot is used)
find_vacant_pad ==
    IF VacantPads = {} THEN NO_PAD ELSE Lowest(VacantPads)

\* find_vacant_pad clearing the whole array instead of the slot it returns
VacantCleared_all(pad) ==
    IF pad \in PadIdx THEN [i \in PadIdx |-> ZeroSlot] ELSE slots

\* find_vacant_pad's memset of the slot it returns
VacantCleared(pad) ==
    IF pad \in PadIdx THEN [slots EXCEPT ![pad] = ZeroSlot] ELSE slots

\* iface->connect(connection, pad): a new handle, or NULL when the backend fails
iface_connect(iface, pad, fails) ==
    IF iface \in fails THEN NoHandle ELSE Handle(iface, pad)

\* the for loop of joypad_connection_connect over pad_map, from entry i on
RECURSIVE ConnectLoop(_, _, _, _, _)
ConnectLoop(i, st, name, pad, fails) ==
    IF name.isnull \/ i > Len(pad_map) THEN st
    ELSE IF strstr(name, pad_map[i].name)
         THEN LET h == iface_connect(pad_map[i].iface, pad, fails)
              IN ConnectLoop(i + 1,
                     [s     |-> [st.s EXCEPT !.iface = pad_map[i].iface, !.data = h],
                      calls |-> Append(st.calls,
                                   Call("connect", h, pad, NoEffect, 0))],
                     name, pad, fails)
         ELSE ConnectLoop(i + 1, st, name, pad, fails)

joypad_connection_connect(name, fails) ==
    LET pad == find_vacant_pad
        cleared == VacantCleared(pad)
    IN /\ build = "apple_ios"
       /\ IF pad >= 0 /\ pad < MAX_PLAYERS
          THEN LET st == ConnectLoop(1,
                            [s |-> [cleared[pad] EXCEPT !.used = TRUE],
                             calls |-> << >>],
                            name, pad, fails)
               IN /\ slots' = [cleared EXCEPT ![pad] = st.s]
                  /\ calls' = st.calls
          ELSE /\ slots' = cleared
               /\ calls' = << >>
       /\ op' = Op("joypad_connection_connect", pad, 0)
       /\ ret' = pad
       /\ reads' = {}
       /\ UNCHANGED <<build, input_data, apple_buttons, apple_axes, iface_caps, winVars>>

apple_joypad_connect_gcapi ==
    LET pad == find_vacant_pad
        cleared == VacantCleared(pad)
    IN /\ build = "apple_ios"
       /\ slots' = IF pad >= 0 /\ pad < MAX_PLAYERS
                   THEN [cleared EXCEPT ![pad].used = TRUE, ![pad].is_gcapi = TRUE]
                   ELSE cleared
       /\ op' = Op("apple_joypad_connect_gcapi", pad, 0)
       /\ ret' = pad
       /\ calls' = << >>
       /\ reads' = {}
       /\ UNCHANGED <<build, input_data, apple_buttons, apple_axes, iface_caps, winVars>>

\* the calls apple_joypad_disconnect makes before it clears the slot
DisconnectCalls(s) ==
    IF s.iface # NoIface /\ s.data # NoHandle /\ HasCap(s.iface, "disconnect")
    THEN << Call("disconnect", s.data, s.data.pad, NoEffect, 0) >>
    ELSE << >>

apple_joypad_disconnect(pad) ==
    /\ build = "apple_ios"
    /\ IF pad < MAX_PLAYERS /\ slots[pad].used
       THEN /\ calls' = DisconnectCalls(slots[pad])
            /\ slots' = [slots EXCEPT ![pad] = ZeroSlot]
       ELSE /\ calls' = << >>
            /\ UNCHANGED slots
    /\ op' = Op("apple_joypad_disconnect", pad, 0)
    /\ ret' = 0
    /\ reads' = IF pad < MAX_PLAYERS THEN {<<"slots", pad>>} ELSE {}
    /\ UNCHANGED <<build, input_data, apple_buttons, apple_axes, iface_caps, winVars>>

\* iface->packet_handler(s->data, data, length): the backend decodes the packet
\* into the pad's raw state
packet_handler(h, snap) ==
    IF input_data
    THEN /\ apple_buttons' = [apple_buttons EXCEPT ![h.pad] = snap.buttons]
         /\ apple_axes' = [apple_axes EXCEPT ![h.pad] = snap.axes]
    ELSE UNCHANGED <<apple_buttons, apple_axes>>

pad_connection_packet(pad, snap) ==
    /\ build = "apple_ios"
    /\ IF /\ pad < MAX_PLAYERS
          /\ slots[pad].used
          /\ slots[pad].iface # NoIface
          /\ slots[pad].data # NoHandle
          /\ HasCap(slots[pad].iface, "packet_handler")
       THEN /\ packet_handler(slots[pad].data, snap)
            /\ calls' = << Call("packet_handler", slots[pad].data, pad, NoEffect, 0) >>
       ELSE /\ calls' = << >>
            /\ UNCHANGED <<apple_buttons, apple_axes>>
    /\ op' = Op("pad_connection_packet", pad, 0)
    /\ ret' = 0
    /\ reads' = IF pad < MAX_PLAYERS THEN {<<"slots", pad>>} ELSE {}
    /\ UNCHANGED <<build, slots, input_data, iface_caps, winVars>>

apple_joypad_has_interface(pad) ==
    /\ build = "apple_ios"
    /\ op' = Op("apple_joypad_has_interface", pad, 0)
    /\ ret' = IF pad < MAX_PLAYERS /\ slots[pad].used
              THEN (IF slots[pad].iface # NoIface THEN 1 ELSE 0)
              ELSE 0
    /\ calls' = << >>
    /\ reads' = IF pad < MAX_PLAYERS THEN {<<"slots", pad>>} ELSE {}
    /\ UNCHANGED <<build, appleVars, winVars>>

(***************************************************************************)
(* apple_joypad: the driver (dispatcher) functions                         *)
(***************************************************************************)
apple_joypad_init ==
    /\ build = "apple_ios"
    /\ op' = Op("apple_joypad_init", NO_PAD, 0)
    /\ ret' = 1
    /\ calls' = << >>
    /\ reads' = {}
    /\ UNCHANGED <<build, appleVars, winVars>>

apple_joypad_query_pad(pad) ==
    /\ build = "apple_ios"
    /\ op' = Op("apple_joypad_query_pad", pad, 0)
    /\ ret' = IF pad < MAX_PLAYERS THEN 1 ELSE 0
    /\ calls' = << >>
    /\ reads' = {}
    /\ UNCHANGED <<build, appleVars, winVars>>

\* slots apple_joypad_destroy sends the two zero-strength commands to
DestroyRumbleSlots ==
    {i \in PadIdx : slots[i].used /\ slots[i].iface # NoIface
                    /\ HasCap(slots[i].iface, "set_rumble")}

RECURSIVE DestroyCalls(_)
DestroyCalls(i) ==
    IF i >= MAX_PLAYERS THEN << >>
    ELSE (IF i \in DestroyRumbleSlots
          THEN << Call("set_rumble", slots[i].data, i, "RETRO_RUMBLE_STRONG", 0),
                  Call("set_rumble", slots[i].data, i, "RETRO_RUMBLE_WEAK", 0) >>
          ELSE << >>) \o DestroyCalls(i + 1)

apple_joypad_destroy ==
    /\ build = "apple_ios"
    /\ calls' = DestroyCalls(0)
    /\ op' = Op("apple_joypad_destroy", NO_PAD, 0)
    /\ ret' = 0
    /\ reads' = {<<"slots", i>> : i \in PadIdx}
    /\ UNCHANGED <<build, appleVars, winVars>>

apple_joypad_button(port, joykey) ==
    /\ build = "apple_ios"
    /\ op' = Op("apple_joypad_button", port, joykey)
    /\ calls' = << >>
    /\ IF ~input_data \/ joykey = NO_BTN
       THEN ret' = 0 /\ reads' = {}
       ELSE IF GET_HAT_DIR(joykey) # 0
       THEN ret' = 0 /\ reads' = {}
       ELSE IF port < MAX_PLAYERS /\ joykey < BUTTON_BITS
       THEN ret' = Bit(apple_buttons[port], joykey) /\ reads' = {<<"buttons", port>>}
       ELSE ret' = 0 /\ reads' = {}
    /\ UNCHANGED <<build, appleVars, winVars>>

\* apple->axes[port][a]: an entry of the table, or whatever lies past its end
AxesEntry(port, a) ==
    IF port \in PadIdx THEN {apple_axes[port][a]} ELSE AxisVals

apple_joypad_axis(port, joyaxis) ==
    /\ build = "apple_ios"
    /\ op' = Op("apple_joypad_axis", port, joyaxis)
    /\ calls' = << >>
    /\ IF ~input_data \/ joyaxis = AXIS_NONE
       THEN ret' = 0 /\ reads' = {}
       ELSE IF AXIS_NEG_GET(joyaxis) < NUM_AXES
       THEN /\ \E val \in AxesEntry(port, AXIS_NEG_GET(joyaxis)) :
                 ret' = IF val < 0 THEN val ELSE 0
            /\ reads' = {<<"axes", port>>}
       ELSE IF AXIS_POS_GET(joyaxis) < NUM_AXES
       THEN /\ \E val \in AxesEntry(port, AXIS_POS_GET(joyaxis)) :
                 ret' = IF val > 0 THEN val ELSE 0
            /\ reads' = {<<"axes", port>>}
       ELSE ret' = 0 /\ reads' = {}
    /\ UNCHANGED <<build, appleVars, winVars>>

\* apple_gamecontroller_poll_all: refreshes the raw state of every
\* GameController (is_gcapi) pad from the hardware
GcapiPads == {i \in PadIdx : slots[i].used /\ slots[i].is_gcapi}

apple_gamecontroller_poll_all(hw) ==
    IF input_data
    THEN /\ apple_buttons' = [i \in PadIdx |->
                IF i \in GcapiPads THEN hw[i].buttons ELSE apple_buttons[i]]
         /\ apple_axes' = [i \in PadIdx |->
                IF i \in GcapiPads THEN hw[i].axes ELSE apple_axes[i]]
    ELSE UNCHANGED <<apple_buttons, apple_axes>>

apple_joypad_poll(hw) ==
    /\ build = "apple_ios"
    /\ apple_gamecontroller_poll_all(hw)
    /\ op' = Op("apple_joypad_poll", NO_PAD, 0)
    /\ ret' = 0
    /\ calls' = << >>
    /\ reads' = {}
    /\ UNCHANGED <<build, slots, input_data, iface_caps, winVars>>

apple_joypad_rumble(pad, effect, strength) ==
    /\ build = "apple_ios"
    /\ op' = Op("apple_joypad_rumble", pad, strength)
    /\ reads' = IF pad < MAX_PLAYERS THEN {<<"slots", pad>>} ELSE {}
    /\ IF /\ pad < MAX_PLAYERS
          /\ slots[pad].used
          /\ slots[pad].iface # NoIface
          /\ HasCap(slots[pad].iface, "set_rumble")
       THEN /\ calls' = << Call("set_rumble", slots[pad].data, pad, effect, strength) >>
            /\ ret' = 1
       ELSE /\ calls' = << >>
            /\ ret' = 0
    /\ UNCHANGED <<build, appleVars, winVars>>

apple_joypad_name(joypad) ==
    /\ build = "apple_ios"
    /\ op' = Op("apple_joypad_name", joypad, 0)
    /\ ret' = 0
    /\ calls' = << >>
    /\ reads' = {}
    /\ UNCHANGED <<build, appleVars, winVars>>


(***************************************************************************)
(* The controllers: XInput users 0..3 and the devices only DirectInput     *)
(* drives.  A device's number is its identity; its name is DevName.        *)
(***************************************************************************)
HAVE_DINPUT == build = "win32"
HAVE_DYNAMIC == build = "win32"
WINRT == build = "uwp"
\* config.def.h
DEFAULT_MAX_PADS == XUSER_MAX_COUNT

XUsers == 0 .. XUSER_MAX_COUNT - 1
PlainDevs == XUSER_MAX_COUNT .. XUSER_MAX_COUNT + MaxPlain - 1
\* XInput-compatible controllers that are no XInput user (XInput serves four)
ExtraXDevs == XUSER_MAX_COUNT + MaxPlain .. XUSER_MAX_COUNT + MaxPlain + MaxExtraX - 1
\* the devices the environment plugs in
DevIds == (0 .. MaxXUser) \cup PlainDevs
\* every device DirectInput may enumerate
EnumDevs == XUsers \cup PlainDevs \cup ExtraXDevs
\* what the controls of an XInput device report: idle, or button 0 with stick
\* 0 pushed
WinSnapshots == { [buttons |-> 0, axes |-> ZeroAxes],
                  [buttons |-> 1, axes |-> Axis0(1)] }
DevName(d) == d + 1
WinPadIdx == 0 .. MAX_USERS - 1
\* unsigned pad arguments: every valid index and one past the end
WinPadArgs == (0 .. MaxQueryPad) \cup {MAX_USERS}

IdleSnap == [buttons |-> 0, axes |-> ZeroAxes]
\* what XInputGetState reports for user i
HwState(i) == IF i \in attached THEN hw_state[i] ELSE IdleSnap

Plug(d) ==
    /\ build # "apple_ios"
    /\ d \notin attached
    /\ d \in PlainDevs => HAVE_DINPUT
    /\ attached' = attached \cup {d}
    /\ op' = Op("Plug", d, 0)
    /\ ret' = 0 /\ calls' = << >> /\ reads' = {}
    /\ UNCHANGED <<build, appleVars, hw_state, seen, xinputVars, dinputVars>>

Unplug(d) ==
    /\ build # "apple_ios"
    /\ d \in attached
    /\ attached' = attached \ {d}
    /\ hw_state' = IF d \in XUsers THEN [hw_state EXCEPT ![d] = IdleSnap] ELSE hw_state
    /\ op' = Op("Unplug", d, 0)
    /\ ret' = 0 /\ calls' = << >> /\ reads' = {}
    /\ UNCHANGED <<build, appleVars, seen, xinputVars, dinputVars>>

\* the player moves the controls of XInput device d
Press(d, snap) ==
    /\ build # "apple_ios"
    /\ d \in attached \cap XUsers
    /\ hw_state[d] # snap
    /\ hw_state' = [hw_state EXCEPT ![d] = snap]
    /\ op' = Op("Press", d, 0)
    /\ ret' = 0 /\ calls' = << >> /\ reads' = {}
    /\ UNCHANGED <<build, appleVars, attached, seen, xinputVars, dinputVars>>

(***************************************************************************)
(* xinput_joypad.c and dinput_joypad.c: the drivers' globals as one record *)
(* w, so that one function can run inside another (poll runs destroy and   *)
(* init).  w.calls collects the collaborator calls.                        *)
(***************************************************************************)
CurW == [dll |-> g_xinput_dll, getstate |-> g_XInputGetStateEx,
         setstate |-> g_XInputSetState, states |-> g_xinput_states,
         block |-> g_xinput_block_pads, idx |-> g_xinput_pad_indexes,
         last |-> g_last_xinput_pad_idx, pads |-> g_pads, cnt |-> g_joypad_cnt,
         calls |-> << >>, polls |-> {}]

SetW(w) ==
    /\ g_xinput_dll' = w.dll
    /\ g_XInputGetStateEx' = w.getstate
    /\ g_XInputSetState' = w.setstate
    /\ g_xinput_states' = w.states
    /\ g_xinput_block_pads' = w.block
    /\ g_xinput_pad_indexes' = w.idx
    /\ g_last_xinput_pad_idx' = w.last
    /\ g_pads' = w.pads
    /\ g_joypad_cnt' = w.cnt
    /\ calls' = w.calls

ZeroXState == [xstate |-> IdleSnap, connected |-> FALSE]
ZeroPad == [joypad |-> NO_DEVICE, joy_name |-> NULL_NAME]
ZeroVibration == [wLeftMotorSpeed |-> 0, wRightMotorSpeed |-> 0]

ConnectNote(by, index, name) ==
    [fn |-> "input_autoconfigure_connect", by |-> by, index |-> index, name |-> name]
\* dev: the device the polling loop was looking at
DisconnectNote(by, index, name, dev) ==
    [fn |-> "input_autoconfigure_disconnect", by |-> by, index |-> index,
     name |-> name, dev |-> dev]

pad_index_to_xuser_index(w, pad) ==
    IF HAVE_DINPUT THEN w.idx[pad]
    ELSE IF pad < DEFAULT_MAX_PADS /\ w.states[pad].connected THEN pad ELSE -1

\* dinput_joypad_inl.h
dinput_joypad_name(w, pad) ==
    IF pad < MAX_USERS THEN w.pads[pad].joy_name ELSE NULL_NAME

xinput_joypad_name(w, pad) ==
    IF HAVE_DINPUT THEN dinput_joypad_name(w, pad)
    ELSE IF pad_index_to_xuser_index(w, pad) < 0 THEN NULL_NAME
    ELSE XBOX_CONTROLLER_NAME

(***************************************************************************)
(* dinput_joypad.c                                                         *)
(***************************************************************************)
\* the GUID table and the RAWINPUT "IG_" probe recognise the XInput devices
guid_is_xinput_device(d) == d \in XUsers \cup ExtraXDevs

\* enum_joypad_cb handing out g_last_xinput_pad_idx without advancing it
enum_joypad_cb_noinc(w, d, createOk) ==
    IF w.cnt = MAX_USERS THEN w
    ELSE IF ~createOk THEN w
    ELSE LET named == [w EXCEPT !.pads[w.cnt] =
                          [joypad |-> d, joy_name |-> DevName(d)]]
             is_xinput_pad == w.block /\ guid_is_xinput_device(d)
         IN IF is_xinput_pad
            THEN [named EXCEPT
                    !.idx[w.cnt] = IF w.last < XUSER_MAX_COUNT THEN w.last ELSE @,
                    !.cnt = w.cnt + 1]
            ELSE [named EXCEPT
                    !.calls = Append(@, ConnectNote("dinput", w.cnt, DevName(d))),
                    !.cnt = w.cnt + 1]

enum_joypad_cb(w, d, createOk) ==
    IF w.cnt = MAX_USERS THEN w
    ELSE IF ~createOk THEN w
    ELSE LET named == [w EXCEPT !.pads[w.cnt] =
                          [joypad |-> d, joy_name |-> DevName(d)]]
             is_xinput_pad == w.block /\ guid_is_xinput_device(d)
         IN IF is_xinput_pad
            THEN [named EXCEPT
                    !.idx[w.cnt] = IF w.last < XUSER_MAX_COUNT THEN w.last ELSE @,
                    !.last = IF w.last < XUSER_MAX_COUNT THEN w.last + 1 ELSE @,
                    !.cnt = w.cnt + 1]
            ELSE [named EXCEPT
                    !.calls = Append(@, ConnectNote("dinput", w.cnt, DevName(d))),
                    !.cnt = w.cnt + 1]

\* IDirectInput8_EnumDevices: the callback on each attached device, in the
\* platform's order
RECURSIVE EnumDevices(_, _, _)
EnumDevices(w, order, createFails) ==
    IF order = << >> THEN w
    ELSE CHOOSE r \in {EnumDevices(n, Tail(order), createFails) :
                        n \in {enum_joypad_cb(w, Head(order),
                                               Head(order) \notin createFails)}} : TRUE

dinput_joypad_init(w, ctxOk, order, createFails) ==
    IF ~ctxOk THEN [ok |-> FALSE, w |-> w]
    ELSE [ok |-> TRUE,
          w  |-> EnumDevices(
                   [w EXCEPT !.last = 0,
                             !.idx = [i \in WinPadIdx |-> NOT_XINPUT],
                             !.pads = [i \in WinPadIdx |->
                                         [w.pads[i] EXCEPT !.joy_name = NULL_NAME]]],
                   order, createFails)]

\* dinput_joypad_inl.h: releases every device and forgets the pads
dinput_joypad_destroy(w) ==
    [w EXCEPT !.pads = [i \in WinPadIdx |-> ZeroPad], !.cnt = 0]

\* what the DirectInput calls of one loop iteration of dinput_joypad_poll do:
\*   ok         Poll succeeds, GetDeviceState succeeds
\*   reacquired Poll fails, Acquire and the second Poll succeed
\*   acquire_failed  Poll fails, Acquire fails (no second Poll)
\*   retry_failed    Poll fails, Acquire succeeds, the second Poll fails
\*   input_lost GetDeviceState returns DIERR_INPUTLOST or DIERR_NOTACQUIRED
PollOutcomes(d) ==
    IF d \in attached THEN {"ok", "reacquired", "acquire_failed", "retry_failed"}
    ELSE {"acquire_failed", "retry_failed", "input_lost"}

\* the DirectInput calls slot i's loop iteration makes under an outcome, and
\* those of them that failed
PollTrace(i, outcome) ==
    {<<"IDirectInputDevice8_Poll", i>>}
    \cup (IF outcome \in {"reacquired", "acquire_failed", "retry_failed"}
          THEN {<<"IDirectInputDevice8_Poll failed", i>>,
                <<"IDirectInputDevice8_Acquire", i>>} ELSE {})
    \cup (IF outcome = "acquire_failed"
          THEN {<<"IDirectInputDevice8_Acquire failed", i>>} ELSE {})
    \cup (IF outcome \in {"reacquired", "retry_failed"}
          THEN {<<"IDirectInputDevice8_Poll again", i>>} ELSE {})
    \cup (IF outcome = "retry_failed"
          THEN {<<"IDirectInputDevice8_Poll again failed", i>>} ELSE {})
    \cup (IF outcome \in {"ok", "reacquired", "input_lost"}
          THEN {<<"IDirectInputDevice8_GetDeviceState", i>>} ELSE {})

DInputPolled(w) ==
    {i \in WinPadIdx : w.idx[i] < 0 /\ w.pads[i].joypad # NO_DEVICE}

RECURSIVE DPollLoop(_, _, _)
DPollLoop(w, i, outcomes) ==
    IF i >= MAX_USERS THEN w
    ELSE IF i \notin DInputPolled(w) THEN DPollLoop(w, i + 1, outcomes)
    ELSE LET p == [w EXCEPT !.polls = @ \cup PollTrace(i, outcomes[i])]
         IN CHOOSE r \in {DPollLoop(n, i + 1, outcomes) :
                      n \in {IF outcomes[i] = "input_lost"
                             THEN [p EXCEPT !.calls = Append(@,
                                     DisconnectNote("dinput", i, w.pads[i].joy_name,
                                                    w.pads[i].joypad))]
                             ELSE p}} : TRUE

dinput_joypad_poll(w, outcomes) == DPollLoop(w, 0, outcomes)

(***************************************************************************)
(* xinput_joypad.c                                                         *)
(***************************************************************************)
\* what load_xinput_dll and dylib_proc find:
\*   no_dll       no xinput DLL can be loaded
\*   full         ordinal 100 and XInputSetState
\*   no_ex        no ordinal 100, but XInputGetState and XInputSetState
\*   no_getstate  neither ordinal 100 nor XInputGetState
\*   no_setstate  a GetState function but no XInputSetState
DllOutcomes == {"no_dll", "full", "no_ex", "no_getstate", "no_setstate"}

xinput_joypad_destroy(w) ==
    LET x == [w EXCEPT !.states = [i \in XUsers |-> ZeroXState],
                       !.dll = IF HAVE_DYNAMIC THEN "NULL" ELSE @,
                       !.getstate = "NULL",
                       !.setstate = "NULL"]
    IN IF HAVE_DINPUT THEN [dinput_joypad_destroy(x) EXCEPT !.block = FALSE] ELSE x

\* the loop of xinput_joypad_init that announces the connected pads
RECURSIVE InitNotify(_, _)
InitNotify(w, j) ==
    IF j >= MAX_USERS THEN w
    ELSE IF pad_index_to_xuser_index(w, j) > -1
    THEN CHOOSE r \in {InitNotify(n, j + 1) :
                        n \in {[w EXCEPT !.calls = Append(@,
                                   ConnectNote("xinput", j, xinput_joypad_name(w, j)))]}} :
            TRUE
    ELSE InitNotify(w, j + 1)

\* xinput_joypad_init from "Zero out the states" on
InitStates(w, ctxOk, order, createFails) ==
    LET z == [w EXCEPT !.states = [i \in XUsers |->
                          [xstate |-> IdleSnap, connected |-> i \in attached]]]
    IN IF \A i \in XUsers : ~z.states[i].connected
       THEN [ok |-> WINRT, w |-> z]
       ELSE IF HAVE_DINPUT
       THEN LET di == dinput_joypad_init([z EXCEPT !.block = TRUE],
                                         ctxOk, order, createFails)
            IN IF di.ok THEN [ok |-> TRUE, w |-> InitNotify(di.w, 0)]
               ELSE [ok |-> FALSE, w |-> [di.w EXCEPT !.block = FALSE]]
       ELSE [ok |-> TRUE, w |-> InitNotify(z, 0)]

xinput_joypad_init(w, dllOutcome, ctxOk, order, createFails) ==
    IF ~HAVE_DYNAMIC
    THEN InitStates([w EXCEPT !.getstate = "set", !.setstate = "set"],
                    ctxOk, order, createFails)
    ELSE IF w.dll = "NULL" /\ dllOutcome = "no_dll"
    THEN [ok |-> FALSE, w |-> w]
    ELSE LET loaded == [w EXCEPT !.dll = IF @ = "NULL" THEN "open" ELSE @]
         IN IF dllOutcome = "no_getstate"
            THEN [ok |-> FALSE,
                  w |-> [loaded EXCEPT !.getstate = "NULL", !.dll = "closed"]]
            ELSE IF dllOutcome = "no_setstate"
            THEN [ok |-> FALSE,
                  w |-> [loaded EXCEPT !.getstate = "set", !.setstate = "NULL",
                                       !.dll = "closed"]]
            ELSE InitStates([loaded EXCEPT !.getstate = "set", !.setstate = "set"],
                            ctxOk, order, createFails)

\* the loop of xinput_joypad_poll from user i on; early: the loop returned
\* after re-initialising
RECURSIVE XPollLoop(_, _, _, _)
XPollLoop(w, i, order, createFails) ==
    IF i >= XUSER_MAX_COUNT THEN [early |-> FALSE, w |-> w]
    ELSE LET new_connected == i \in attached
             asked == [w EXCEPT !.polls = @ \cup {<<"XInputGetState", i>>}]
             got == IF new_connected
                    THEN [asked EXCEPT !.states[i].xstate = HwState(i)] ELSE asked
         IN IF new_connected # w.states[i].connected
            THEN IF ~HAVE_DINPUT /\ new_connected
                 THEN [early |-> TRUE,
                       w |-> xinput_joypad_init(xinput_joypad_destroy(got),
                                                "full", TRUE, order, createFails).w]
                 ELSE LET upd == [got EXCEPT !.states[i].connected = new_connected]
                      IN CHOOSE r \in {XPollLoop(n, i + 1, order, createFails) :
                            n \in {IF ~new_connected
                                   THEN [upd EXCEPT !.calls = Append(@,
                                           DisconnectNote("xinput", i,
                                                          xinput_joypad_name(upd, i), i))]
                                   ELSE upd}} : TRUE
            ELSE CHOOSE r \in {XPollLoop(n, i + 1, order, createFails) : n \in {got}} :
                    TRUE

xinput_joypad_poll(w, outcomes) ==
    LET x == XPollLoop(w, 0, << >>, {})
    IN IF x.early THEN x.w
       ELSE IF HAVE_DINPUT THEN dinput_joypad_poll(x.w, outcomes)
       ELSE x.w

\* xinput_joypad_inl.h: the button's bit of the state word
xinput_joypad_button_state(btn_word, joykey) ==
    IF joykey = NO_BTN \/ GET_HAT_DIR(joykey) # 0 \/ joykey >= BUTTON_BITS THEN 0
    ELSE Bit(btn_word, joykey)

\* xinput_joypad_inl.h: the stick's value, clipped to the side asked for
xinput_joypad_axis_state(axes, joyaxis) ==
    IF joyaxis = AXIS_NONE THEN 0
    ELSE IF AXIS_NEG_GET(joyaxis) < NUM_AXES
    THEN (IF axes[AXIS_NEG_GET(joyaxis)] < 0 THEN axes[AXIS_NEG_GET(joyaxis)] ELSE 0)
    ELSE IF AXIS_POS_GET(joyaxis) < NUM_AXES
    THEN (IF axes[AXIS_POS_GET(joyaxis)] > 0 THEN axes[AXIS_POS_GET(joyaxis)] ELSE 0)
    ELSE 0

\* dinput_joypad_inl.h
dinput_joypad_query_pad(pad) ==
    IF pad < MAX_USERS /\ g_pads[pad].joypad # NO_DEVICE THEN 1 ELSE 0

\* dinput_joypad_inl.h: what dinput_joypad's button, axis and state hand back
\* for a pad, abstracted to released / pressed
DInputReturns == {0, 1}

\* pad_index_to_xuser_index(pad) as a caller gets it: the table's entry, or
\* whatever lies past the table's end
XUserIndexOf(pad) ==
    IF HAVE_DINPUT /\ pad \notin WinPadIdx THEN {NOT_XINPUT, 0}
    ELSE {pad_index_to_xuser_index(CurW, pad)}

\* g_xinput_states[xuser]: the entry, or whatever lies before the array
XStateEntry(xuser) ==
    IF xuser \in XUsers THEN {g_xinput_states[xuser]}
    ELSE [xstate : WinSnapshots, connected : BOOLEAN]

IndexReads(pad) ==
    IF HAVE_DINPUT THEN {<<"g_xinput_pad_indexes", pad>>}
    ELSE IF pad < DEFAULT_MAX_PADS THEN {<<"g_xinput_states", pad>>} ELSE {}

\* the sequences that list each element of S once
RECURSIVE Perms(_)
Perms(S) ==
    IF S = {} THEN {<< >>}
    ELSE UNION {{<<d>> \o t : t \in Perms(S \ {d})} : d \in S}

XInputInit(dllOutcome, ctxOk, order, createFails) ==
    /\ build \in {"win32", "uwp"}
    /\ ~active
    /\ dllOutcome = "no_dll" => g_xinput_dll = "NULL"
    /\ \E r \in {xinput_joypad_init(CurW, dllOutcome, ctxOk, order, createFails)} :
          /\ SetW(r.w)
          /\ active' = r.ok
          /\ ret' = IF r.ok THEN 1 ELSE 0
    /\ seen' = attached \cap PlainDevs
    /\ op' = Op("xinput_joypad_init", NO_PAD, 0)
    /\ reads' = {}
    /\ UNCHANGED <<build, appleVars, attached, hw_state, g_xinput_rumble_states>>

XInputDestroy ==
    /\ build \in {"win32", "uwp"}
    /\ active
    /\ \E w \in {xinput_joypad_destroy(CurW)} : SetW(w)
    /\ active' = FALSE
    /\ op' = Op("xinput_joypad_destroy", NO_PAD, 0)
    /\ ret' = 0
    /\ reads' = {}
    /\ UNCHANGED <<build, appleVars, envVars, g_xinput_rumble_states>>

XInputPoll(outcomes) ==
    /\ build \in {"win32", "uwp"}
    /\ active
    /\ \E w \in {xinput_joypad_poll(CurW, outcomes)} : SetW(w) /\ reads' = w.polls
    /\ seen' = attached \cap PlainDevs
    /\ op' = Op("xinput_joypad_poll", NO_PAD, 0)
    /\ ret' = 0
    /\ UNCHANGED <<build, appleVars, attached, hw_state, active, g_xinput_rumble_states>>

\* xinput_joypad_button calling DirectInput but discarding what it returned
XInputButton_drop_result(port, joykey) ==
    /\ build \in {"win32", "uwp"}
    /\ active
    /\ op' = Op("xinput_joypad_button", port, joykey)
    /\ \E xuser \in XUserIndexOf(port) :
          IF HAVE_DINPUT /\ xuser = -1
          THEN /\ \E r \in DInputReturns :
                    /\ ret' = 0
                    /\ calls' = << [fn |-> "dinput_joypad.button", pad |-> port,
                                    result |-> r] >>
               /\ reads' = IndexReads(port)
          ELSE /\ \E e \in XStateEntry(xuser) :
                    ret' = IF ~e.connected THEN 0
                           ELSE xinput_joypad_button_state(e.xstate.buttons, joykey)
               /\ calls' = << >>
               /\ reads' = IndexReads(port) \cup {<<"g_xinput_states", xuser>>}
    /\ UNCHANGED <<build, appleVars, winVars>>

XInputButton(port, joykey) ==
    /\ build \in {"win32", "uwp"}
    /\ active
    /\ op' = Op("xinput_joypad_button", port, joykey)
    /\ \E xuser \in XUserIndexOf(port) :
          IF HAVE_DINPUT /\ xuser = -1
          THEN /\ \E r \in DInputReturns :
                    /\ ret' = r
                    /\ calls' = << [fn |-> "dinput_joypad.button", pad |-> port,
                                    result |-> r] >>
               /\ reads' = IndexReads(port)
          ELSE /\ \E e \in XStateEntry(xuser) :
                    ret' = IF ~e.connected THEN 0
                           ELSE xinput_joypad_button_state(e.xstate.buttons, joykey)
               /\ calls' = << >>
               /\ reads' = IndexReads(port) \cup {<<"g_xinput_states", xuser>>}
    /\ UNCHANGED <<build, appleVars, winVars>>

XInputAxis(port, joyaxis) ==
    /\ build \in {"win32", "uwp"}
    /\ active
    /\ op' = Op("xinput_joypad_axis", port, joyaxis)
    /\ \E xuser \in XUserIndexOf(port) :
          IF HAVE_DINPUT /\ xuser = -1
          THEN /\ \E r \in DInputReturns :
                    /\ ret' = r
                    /\ calls' = << [fn |-> "dinput_joypad.axis", pad |-> port,
                                    result |-> r] >>
               /\ reads' = IndexReads(port)
          ELSE /\ \E e \in XStateEntry(xuser) :
                    ret' = IF ~e.connected THEN 0
                           ELSE xinput_joypad_axis_state(e.xstate.axes, joyaxis)
               /\ calls' = << >>
               /\ reads' = IndexReads(port) \cup {<<"g_xinput_states", xuser>>}
    /\ UNCHANGED <<build, appleVars, winVars>>

\* the bit of xinput_joypad_state_func's result for one bind: the button, or
\* failing that the axis pushed beyond axis_threshold (given in halves)
BindPressed(xstate, joykey, joyaxis, threshold2) ==
    LET v == xinput_joypad_axis_state(xstate.axes, joyaxis)
        abs == IF v < 0 THEN -v ELSE v
    IN IF joykey # NO_BTN /\ xinput_joypad_button_state(xstate.buttons, joykey) # 0
       THEN 1
       ELSE IF joyaxis # AXIS_NONE /\ 2 * abs > threshold2 * 2^15 THEN 1
       ELSE 0

\* xinput_joypad_state_func for a pad with one bind
XInputState(port, joykey, joyaxis, threshold2) ==
    /\ build \in {"win32", "uwp"}
    /\ active
    /\ op' = Op("xinput_joypad_state", port, <<joykey, joyaxis, threshold2>>)
    /\ \E xuser \in XUserIndexOf(port) :
          IF HAVE_DINPUT /\ xuser = -1
          THEN /\ \E r \in DInputReturns :
                    /\ ret' = r
                    /\ calls' = << [fn |-> "dinput_joypad.state", pad |-> port,
                                    result |-> r] >>
               /\ reads' = IndexReads(port)
          ELSE /\ \E e \in XStateEntry(xuser) :
                    ret' = IF ~e.connected THEN 0
                           ELSE BindPressed(e.xstate, joykey, joyaxis, threshold2)
               /\ calls' = << >>
               /\ reads' = IndexReads(port) \cup {<<"g_xinput_states", xuser>>}
    /\ UNCHANGED <<build, appleVars, winVars>>

\* xinput_joypad_query_pad refreshing the connected flag of the pad's user
XInputQueryPad_refresh(pad) ==
    /\ build \in {"win32", "uwp"}
    /\ active
    /\ op' = Op("xinput_joypad_query_pad", pad, 0)
    /\ \E xuser \in XUserIndexOf(pad) :
          IF xuser > -1
          THEN /\ \E e \in XStateEntry(xuser) : ret' = IF e.connected THEN 1 ELSE 0
               /\ calls' = << >>
               /\ reads' = IndexReads(pad) \cup {<<"g_xinput_states", xuser>>}
          ELSE IF HAVE_DINPUT
          THEN /\ ret' = dinput_joypad_query_pad(pad)
               /\ calls' = << [fn |-> "dinput_joypad.query_pad", pad |-> pad,
                               result |-> dinput_joypad_query_pad(pad)] >>
               /\ reads' = IndexReads(pad)
          ELSE /\ ret' = 0
               /\ calls' = << >>
               /\ reads' = IndexReads(pad)
    /\ g_xinput_states' =
          [i \in XUsers |->
             IF i = pad_index_to_xuser_index(CurW, IF pad \in WinPadIdx THEN pad ELSE 0)
             THEN [g_xinput_states[i] EXCEPT !.connected = i \in attached]
             ELSE g_xinput_states[i]]
    /\ UNCHANGED <<build, appleVars, envVars, dinputVars, active, g_xinput_dll,
                   g_XInputGetStateEx, g_XInputSetState, g_xinput_rumble_states>>

XInputQueryPad(pad) ==
    /\ build \in {"win32", "uwp"}
    /\ active
    /\ op' = Op("xinput_joypad_query_pad", pad, 0)
    /\ \E xuser \in XUserIndexOf(pad) :
          IF xuser > -1
          THEN /\ \E e \in XStateEntry(xuser) : ret' = IF e.connected THEN 1 ELSE 0
               /\ calls' = << >>
               /\ reads' = IndexReads(pad) \cup {<<"g_xinput_states", xuser>>}
          ELSE IF HAVE_DINPUT
          THEN /\ ret' = dinput_joypad_query_pad(pad)
               /\ calls' = << [fn |-> "dinput_joypad.query_pad", pad |-> pad,
                               result |-> dinput_joypad_query_pad(pad)] >>
               /\ reads' = IndexReads(pad)
          ELSE /\ ret' = 0
               /\ calls' = << >>
               /\ reads' = IndexReads(pad)
    /\ UNCHANGED <<build, appleVars, winVars>>

\* the vibration after the assignment of xinput_joypad_rumble
WithSpeed(vib, effect, strength) ==
    IF effect = "RETRO_RUMBLE_STRONG" THEN [vib EXCEPT !.wLeftMotorSpeed = strength]
    ELSE IF effect = "RETRO_RUMBLE_WEAK" THEN [vib EXCEPT !.wRightMotorSpeed = strength]
    ELSE vib

\* g_XInputSetState(xuser, vibration): 0 (ERROR_SUCCESS) iff the device is there
XInputSetState(xuser) == IF xuser \in attached THEN 0 ELSE 1

\* the core may call set_rumble whether or not the last init succeeded: the
\* function itself guards against a missing XInputSetState
XInputRumble(pad, effect, strength) ==
    /\ build \in {"win32", "uwp"}
    /\ op' = Op("xinput_joypad_rumble", pad, strength)
    /\ reads' = IndexReads(pad)
    /\ \E xuser \in XUserIndexOf(pad) :
          IF xuser = -1
          THEN /\ IF HAVE_DINPUT
                  THEN \E r \in (IF dinput_joypad_query_pad(pad) = 1 THEN {0, 1} ELSE {0}) :
                          /\ ret' = r
                          /\ calls' = << [fn |-> "dinput_joypad.set_rumble", pad |-> pad,
                                          result |-> r] >>
                  ELSE ret' = 0 /\ calls' = << >>
               /\ UNCHANGED g_xinput_rumble_states
          ELSE LET vib == WithSpeed(g_xinput_rumble_states[xuser], effect, strength)
               IN /\ g_xinput_rumble_states' =
                        [g_xinput_rumble_states EXCEPT ![xuser] = vib]
                  /\ IF g_XInputSetState = "NULL"
                     THEN ret' = 0 /\ calls' = << >>
                     ELSE /\ ret' = IF XInputSetState(xuser) = 0 THEN 1 ELSE 0
                          /\ calls' = << [fn |-> "XInputSetState", xuser |-> xuser,
                                          vib |-> vib] >>
    /\ UNCHANGED <<build, appleVars, envVars, dinputVars, active, g_xinput_dll,
                   g_XInputGetStateEx, g_XInputSetState, g_xinput_states>>

XInputName(pad) ==
    /\ build \in {"win32", "uwp"}
    /\ active
    /\ op' = Op("xinput_joypad_name", pad, 0)
    /\ ret' = xinput_joypad_name(CurW, pad)
    /\ calls' = IF HAVE_DINPUT THEN << [fn |-> "dinput_joypad.name", pad |-> pad] >>
                ELSE << >>
    /\ reads' = IF HAVE_DINPUT THEN {} ELSE IndexReads(pad)
    /\ UNCHANGED <<build, appleVars, winVars>>

(***************************************************************************)
(* Initial state and next-state relation                                   *)
(***************************************************************************)
\* the functions each interface provides: one interface leaves the optional
\* set_rumble NULL

AppleInit ==
    /\ slots = [i \in PadIdx |-> ZeroSlot]
    /\ apple_buttons = [i \in PadIdx |-> 0]
    /\ apple_axes = [i \in PadIdx |-> ZeroAxes]
    /\ IF build = "apple_ios"
       THEN /\ input_data \in BOOLEAN
            /\ iface_caps = [f \in Ifaces |-> IF f = "apple_pad_ps3"
                                                THEN {"disconnect", "packet_handler", "set_rumble"}
                                                ELSE {"disconnect", "packet_handler"}]
       ELSE input_data = FALSE /\ iface_caps = [f \in Ifaces |-> {}]

WinInit ==
    /\ attached = {}
    /\ hw_state = [i \in XUsers |-> IdleSnap]
    /\ seen = {}
    /\ active = FALSE
    /\ g_xinput_dll = "NULL"
    /\ g_XInputGetStateEx = "NULL"
    /\ g_XInputSetState = "NULL"
    /\ g_xinput_states = [i \in XUsers |-> ZeroXState]
    /\ g_xinput_rumble_states = [i \in XUsers |-> ZeroVibration]
    /\ g_xinput_block_pads = FALSE
    /\ g_xinput_pad_indexes = [i \in WinPadIdx |-> 0]
    /\ g_last_xinput_pad_idx = 0
    /\ g_pads = [i \in WinPadIdx |-> ZeroPad]
    /\ g_joypad_cnt = 0

Init ==
    /\ build \in Builds
    /\ AppleInit
    /\ WinInit
    /\ op = Op("start", NO_PAD, 0)
    /\ ret = 0
    /\ calls = << >>
    /\ reads = {}

AppleNext ==
    \/ \E name \in Names : \E fails \in SUBSET {m.iface : m \in {pad_map[i] : i \in DOMAIN pad_map}} :
          /\ \A f \in fails : \E i \in DOMAIN pad_map :
                 pad_map[i].iface = f /\ ~name.isnull /\ strstr(name, pad_map[i].name)
          /\ joypad_connection_connect(name, fails)
    \/ apple_joypad_connect_gcapi
    \/ \E pad \in PadArgs : apple_joypad_disconnect(pad)
    \/ \E pad \in PadArgs, snap \in Snapshots : pad_connection_packet(pad, snap)
    \/ \E pad \in PadArgs : apple_joypad_has_interface(pad)
    \/ apple_joypad_init
    \/ \E pad \in PadArgs : apple_joypad_query_pad(pad)
    \/ apple_joypad_destroy
    \/ \E port \in PadArgs, joykey \in JoyKeys : apple_joypad_button(port, joykey)
    \/ \E port \in PadArgs, joyaxis \in JoyAxes : apple_joypad_axis(port, joyaxis)
    \/ \E hw \in [PadIdx -> Snapshots] : apple_joypad_poll(hw)
    \/ \E pad \in PadArgs, e \in RumbleEffects, st \in Strengths :
          apple_joypad_rumble(pad, e, st)
    \/ \E pad \in PadArgs : apple_joypad_name(pad)

AllOutcomes == {"ok", "reacquired", "acquire_failed", "retry_failed", "input_lost"}

WinNext ==
    \/ \E d \in DevIds : Plug(d)
    \/ \E d \in DevIds : Unplug(d)
    \/ \E d \in XUsers, snap \in WinSnapshots : Press(d, snap)
    \/ \E dllOutcome \in DllOutcomes, ctxOk \in BOOLEAN :
          \E order \in Perms(attached), createFails \in SUBSET attached :
             /\ ~HAVE_DINPUT => (dllOutcome = "full" /\ ctxOk /\ createFails = {}
                                 /\ \A i, j \in DOMAIN order : i < j => order[i] < order[j])
             /\ XInputInit(dllOutcome, ctxOk, order, createFails)
    \/ XInputDestroy
    \/ \E outcomes \in [DInputPolled(CurW) -> AllOutcomes] :
          /\ \A i \in DOMAIN outcomes : outcomes[i] \in PollOutcomes(g_pads[i].joypad)
          /\ XInputPoll(outcomes)
    \/ \E port \in WinPadArgs, joykey \in {0, NO_BTN} : XInputButton(port, joykey)
    \/ \E port \in WinPadArgs, joyaxis \in {AXIS_POS(0), AXIS_NONE} :
          XInputAxis(port, joyaxis)
    \/ \E port \in WinPadArgs, threshold2 \in {0, 1},
          bind \in {<<0, AXIS_NONE>>, <<NO_BTN, AXIS_POS(0)>>} :
          XInputState(port, bind[1], bind[2], threshold2)
    \/ \E pad \in WinPadArgs : XInputQueryPad(pad)
    \/ \E pad \in (0 .. MaxRumblePad) \cup {MAX_USERS}, e \in RumbleEffects, st \in Strengths :
          XInputRumble(pad, e, st)
    \/ \E pad \in WinPadArgs : XInputName(pad)

Next == AppleNext \/ WinNext

Spec == Init /\ [][Next]_vars

(***************************************************************************)
(* Enumeration on its own: the driver is initialised once, with any set of *)
(* controllers plugged in and DirectInput reporting them in any order.     *)
(***************************************************************************)
EnumInit ==
    /\ build = "win32"
    /\ AppleInit
    /\ attached \in SUBSET EnumDevs
    \* XInput serves the first four XInput devices: a further one is there only
    \* when all four users are taken
    /\ attached \cap ExtraXDevs # {} => XUsers \subseteq attached
    /\ hw_state = [i \in XUsers |-> IdleSnap]
    /\ seen = {}
    /\ active = FALSE
    /\ g_xinput_dll = "NULL"
    /\ g_XInputGetStateEx = "NULL"
    /\ g_XInputSetState = "NULL"
    /\ g_xinput_states = [i \in XUsers |-> ZeroXState]
    /\ g_xinput_rumble_states = [i \in XUsers |-> ZeroVibration]
    /\ g_xinput_block_pads = FALSE
    /\ g_xinput_pad_indexes = [i \in WinPadIdx |-> 0]
    /\ g_last_xinput_pad_idx = 0
    /\ g_pads = [i \in WinPadIdx |-> ZeroPad]
    /\ g_joypad_cnt = 0
    /\ op = Op("start", NO_PAD, 0)
    /\ ret = 0
    /\ calls = << >>
    /\ reads = {}

EnumNext ==
    \/ \E order \in Perms(attached), createFails \in SUBSET attached :
          XInputInit("full", TRUE, order, createFails)
    \/ \E outcomes \in [DInputPolled(CurW) -> AllOutcomes] :
          /\ \A i \in DOMAIN outcomes : outcomes[i] \in PollOutcomes(g_pads[i].joypad)
          /\ XInputPoll(outcomes)

SpecEnum == EnumInit /\ [][EnumNext]_vars

\* The build without DirectInput (__WINRT__), with several XInput users
\* coming and going between init, poll and destroy.
UwpInit ==
    /\ build = "uwp"
    /\ AppleInit
    /\ WinInit
    /\ op = Op("start", NO_PAD, 0)
    /\ ret = 0
    /\ calls = << >>
    /\ reads = {}

UwpNext ==
    \/ \E d \in 0 .. MaxUwpUser : Plug(d)
    \/ \E d \in 0 .. MaxUwpUser : Unplug(d)
    \/ \E d \in 0 .. MaxUwpUser, snap \in WinSnapshots : Press(d, snap)
    \/ XInputInit("full", TRUE, << >>, {})
    \/ XInputDestroy
    \/ XInputPoll(<< >>)

SpecUwp == UwpInit /\ [][UwpNext]_vars

(***************************************************************************)
(* Properties of the Apple slot registry and dispatcher                    *)
(***************************************************************************)
IsConnect(o) == o.name \in {"joypad_connection_connect", "apple_joypad_connect_gcapi"}

AppleQueries == {"apple_joypad_button", "apple_joypad_axis", "apple_joypad_rumble",
                 "apple_joypad_name"}
XInputQueries == {"xinput_joypad_button", "xinput_joypad_axis", "xinput_joypad_rumble",
                  "xinput_joypad_name"}

\* C6: every connect into a registry with a vacant slot returns a vacant
\* index (so consecutive connects from the empty registry get distinct
\* indices), marks it used and leaves the other slots alone; a connect into a
\* full registry returns -1 and leaves every slot unchanged.
C6_FullRegistryRejectsConnect ==
    [][IsConnect(op') =>
         IF VacantPads = {}
         THEN ret' = NO_PAD /\ slots' = slots
         ELSE /\ ret' \in VacantPads
              /\ slots'[ret'].used
              /\ \A i \in PadIdx \ {ret'} : slots'[i] = slots[i]]_vars

\* a connect has just been refused by a registry whose slots are all occupied,
\* one of them by a backend handle
C6_Witness ==
    /\ IsConnect(op)
    /\ ret = NO_PAD
    /\ \A i \in PadIdx : slots[i].used
    /\ \E i \in PadIdx : slots[i].data # NoHandle

\* C7 (as amended): a connect right after apple_joypad_disconnect(s) returns
\* the lowest vacant index; that is s exactly when every slot below s is
\* occupied.
C7_ReleaseThenConnectLowest ==
    [][(op.name = "apple_joypad_disconnect" /\ op.pad \in PadIdx /\ IsConnect(op')) =>
         /\ ret' = Lowest(VacantPads)
         /\ (ret' = op.pad <=> \A i \in 0 .. op.pad - 1 : slots[i].used)]_vars

\* C7 (as claimed): a connect right after apple_joypad_disconnect(s) of an
\* occupied slot s (the disconnect reached the backend) returns s.
C7_ReleaseThenConnectSame ==
    [][(op.name = "apple_joypad_disconnect" /\ op.pad \in PadIdx /\ calls # << >>
        /\ IsConnect(op')) => ret' = op.pad]_vars

\* slot 1 has just been released by apple_joypad_disconnect while slot 0 is
\* occupied: the next connect returns 1
C7_Witness ==
    /\ op.name = "apple_joypad_disconnect"
    /\ op.pad = 1
    /\ calls # << >>
    /\ slots[0].used
    /\ ~slots[1].used

\* C4: a dispatcher call with a pad index outside the table returns its
\* neutral default, reads no per-pad entry and calls no backend.
C4_OutOfRangeNeutral ==
    /\ (op.name \in AppleQueries /\ op.pad \notin PadIdx) =>
          (ret = 0 /\ reads = {} /\ calls = << >>)
    /\ (op.name \in XInputQueries /\ op.pad \notin WinPadIdx) =>
          (ret = 0 /\ reads = {} /\ calls = << >>)

\* the pads the XInput driver holds as disconnected XInput devices
XDisconnectedPads ==
    {p \in WinPadIdx :
       IF HAVE_DINPUT
       THEN /\ g_xinput_pad_indexes[p] \in XUsers
            /\ ~g_xinput_states[g_xinput_pad_indexes[p]].connected
       ELSE p \in XUsers /\ ~g_xinput_states[p].connected}

\* C5: on an in-range pad whose slot is unoccupied or whose device is
\* disconnected, button, axis, set_rumble and name return their neutral
\* defaults without a backend call; on an occupied pad button returns the bit
\* of the pad's current state.
C5_UnoccupiedNeutral ==
    /\ (op.name \in AppleQueries /\ op.pad \in PadIdx /\ ~slots[op.pad].used) =>
          (ret = 0 /\ calls = << >>)
    /\ (op.name \in XInputQueries /\ op.pad \in XDisconnectedPads) =>
          (ret = 0 /\ calls = << >>)
    /\ (op.name = "apple_joypad_button" /\ op.pad \in PadIdx /\ slots[op.pad].used
        /\ input_data /\ op.arg < BUTTON_BITS) =>
          ret = Bit(apple_buttons[op.pad], op.arg)

\* C8: a connect that allocates a slot leaves its fields cleared apart from
\* what the connect itself sets, and the raw state button and axis read for
\* that pad index is zero.
C8_ReallocatedSlotZeroed ==
    [][(IsConnect(op') /\ ret' \in PadIdx) =>
         /\ slots'[ret'].used
         /\ (op'.name = "apple_joypad_connect_gcapi" =>
                slots'[ret'] = [ZeroSlot EXCEPT !.used = TRUE, !.is_gcapi = TRUE])
         /\ (op'.name = "joypad_connection_connect" => ~slots'[ret'].is_gcapi)
         /\ apple_buttons'[ret'] = 0
         /\ apple_axes'[ret'] = ZeroAxes]_vars

\* C9: apple_joypad_disconnect of an occupied slot whose interface has
\* set_rumble calls set_rumble on the slot's handle with strength 0 for
\* RETRO_RUMBLE_STRONG and for RETRO_RUMBLE_WEAK.
C9_DisconnectStopsRumble ==
    [][(/\ op'.name = "apple_joypad_disconnect"
        /\ op'.pad \in PadIdx
        /\ slots[op'.pad].used
        /\ HasCap(slots[op'.pad].iface, "set_rumble")) =>
         \A e \in RumbleEffects :
            \E k \in DOMAIN calls' :
               calls'[k] = Call("set_rumble", slots[op'.pad].data, op'.pad, e, 0)]_vars

(***************************************************************************)
(* Properties of the XInput/DirectInput drivers                            *)
(***************************************************************************)
IsDisconnectNote(c) == c.fn = "input_autoconfigure_disconnect"
IsConnectNote(c) == c.fn = "input_autoconfigure_connect"

\* the disconnect notifications among cs that are about device d
DisconnectNotes(cs, d) == {k \in DOMAIN cs : IsDisconnectNote(cs[k]) /\ cs[k].dev = d}

\* the devices the two polling loops look at
PolledDevices == XUsers \cup {g_pads[i].joypad : i \in DInputPolled(CurW)}

\* the driver's last look found device d connected
WasConnected(d) == IF d \in XUsers THEN g_xinput_states[d].connected ELSE d \in seen

\* the slots under which XInput user i is a pad
SlotsOfXUser(idx, i) ==
    IF HAVE_DINPUT THEN {j \in WinPadIdx : idx[j] = i} ELSE {i}

\* C1: a poll tick emits exactly one disconnect notification for a device
\* that was connected at the last look and is gone now, and none for any other
\* device (in particular none for a device already seen gone).
C1_OneDisconnectPerTransition ==
    [][op'.name = "xinput_joypad_poll" =>
         \A d \in PolledDevices :
            Cardinality(DisconnectNotes(calls', d)) =
               (IF WasConnected(d) /\ d \notin attached THEN 1 ELSE 0)]_vars

\* C2: a poll tick that finds XInput user i connected while the stored flag is
\* false emits a connect notification carrying a slot index assigned to i.
C2_ReconnectNotifies ==
    [][op'.name = "xinput_joypad_poll" =>
         \A i \in XUsers :
            (i \in attached /\ ~g_xinput_states[i].connected) =>
               \E k \in DOMAIN calls' :
                  /\ IsConnectNote(calls'[k])
                  /\ calls'[k].index \in SlotsOfXUser(g_xinput_pad_indexes', i)]_vars

\* the name a device's connect notification carries
ConnectName(d) == IF HAVE_DINPUT THEN DevName(d) ELSE XBOX_CONTROLLER_NAME

\* C3: a disconnect notification for a device that is a pad carries that
\* pad's slot index and the name its connect notification carried.
C3_DisconnectCarriesSlot ==
    \A k \in DOMAIN calls :
       IsDisconnectNote(calls[k]) =>
          LET d == calls[k].dev
              own == IF d \in XUsers THEN SlotsOfXUser(g_xinput_pad_indexes, d)
                     ELSE {j \in WinPadIdx : g_pads[j].joypad = d}
          IN own # {} => (calls[k].index \in own /\ calls[k].name = ConnectName(d))

\* C10: once destroy has returned no nonzero motor speed remains stored, and
\* apple_joypad_destroy has sent the two zero-strength commands to every
\* occupied slot whose interface has set_rumble.
C10_DestroyStopsMotors ==
    /\ op.name = "xinput_joypad_destroy" =>
          \A x \in XUsers : g_xinput_rumble_states[x] = ZeroVibration
    /\ op.name = "apple_joypad_destroy" =>
          \A i \in DestroyRumbleSlots : \A e \in RumbleEffects :
             \E k \in DOMAIN calls : calls[k] = Call("set_rumble", slots[i].data, i, e, 0)

\* C11: set_rumble on a pad whose backend has no rumble capability (an Apple
\* slot without interface or without set_rumble; XInput without
\* XInputSetState) returns false and changes no state of the drivers, the
\* stored motor speeds included.
C11_NoRumbleNoEffect ==
    [][/\ (/\ op'.name = "apple_joypad_rumble"
           /\ op'.pad \in PadIdx
           /\ slots[op'.pad].used
           /\ ~HasCap(slots[op'.pad].iface, "set_rumble")) =>
             (ret' = 0 /\ calls' = << >> /\ UNCHANGED appleVars)
       /\ (op'.name = "xinput_joypad_rumble" /\ g_XInputSetState = "NULL") =>
             (ret' = 0 /\ UNCHANGED <<xinputVars, dinputVars>>)]_vars

\* the slots the last enumeration filled with a device it classified as an
\* XInput pad
AliasedSlots ==
    {j \in WinPadIdx : /\ HAVE_DINPUT
                       /\ g_xinput_block_pads
                       /\ j < g_joypad_cnt
                       /\ g_xinput_pad_indexes[j] >= 0}

\* C12: a slot whose device the enumeration callback classified as an XInput
\* pad holds no DirectInput device handle.
C12_AliasedHasNoHandle ==
    \A j \in AliasedSlots : g_pads[j].joypad = NO_DEVICE

\* the slots the last enumeration filled with a device that
\* guid_is_xinput_device recognises, while XInput blocks those pads
XClassSlots ==
    {j \in WinPadIdx : /\ g_xinput_block_pads
                       /\ j < g_joypad_cnt
                       /\ guid_is_xinput_device(g_pads[j].joypad)}

\* how many devices classified as XInput were enumerated before slot j's
XRank(j) == Cardinality({i \in XClassSlots : i < j})

NoDuplicateIndex ==
    \A i, j \in WinPadIdx :
       (i # j /\ g_xinput_pad_indexes[i] >= 0) =>
          g_xinput_pad_indexes[i] # g_xinput_pad_indexes[j]

C14_IndexIsTrueUser ==
    (op.name = "xinput_joypad_init" /\ g_xinput_block_pads) =>
       \A j \in WinPadIdx :
          j < g_joypad_cnt =>
             /\ g_pads[j].joypad \in XUsers =>
                   g_xinput_pad_indexes[j] = g_pads[j].joypad
             /\ g_pads[j].joypad \in PlainDevs =>
                   g_xinput_pad_indexes[j] = NOT_XINPUT

\* C15: query_pad(pad) is true iff the pad's hardware can be reached now: it
\* is false for an unoccupied slot and for a disconnected pad.
C15_QueryPadIffReachable ==
    /\ (op.name = "apple_joypad_query_pad" /\ op.pad \in PadIdx) =>
          (ret = 1 <=> slots[op.pad].used)
    /\ (op.name = "xinput_joypad_query_pad" /\ op.pad \in WinPadIdx
        /\ pad_index_to_xuser_index(CurW, op.pad) \in XUsers) =>
          (ret = 1 <=>
             g_xinput_states[pad_index_to_xuser_index(CurW, op.pad)].connected)

\* C16: a call of xinput_joypad_init that returns false has no partial side
\* effect: it sends no connect notification, leaves the block flag and the
\* connected flags as they were, and leaves no closed library handle behind
\* for a later init to reuse.
C16_FailedInitNoSideEffect ==
    [][(op'.name = "xinput_joypad_init" /\ ret' = 0) =>
          /\ \A i \in 1..Len(calls') : ~IsConnectNote(calls'[i])
          /\ g_xinput_block_pads' = g_xinput_block_pads
          /\ \A i \in XUsers :
                g_xinput_states'[i].connected = g_xinput_states[i].connected
          /\ g_xinput_dll' # "closed"]_vars

\* the operations of xinput_joypad that hand a pad over to dinput_joypad, and
\* the operation each of them hands it to
ForwardingOps ==
    [xinput_joypad_button    |-> "dinput_joypad.button",
     xinput_joypad_axis      |-> "dinput_joypad.axis",
     xinput_joypad_state     |-> "dinput_joypad.state",
     xinput_joypad_query_pad |-> "dinput_joypad.query_pad",
     xinput_joypad_rumble    |-> "dinput_joypad.set_rumble"]

DInputFns == {ForwardingOps[n] : n \in DOMAIN ForwardingOps}

\* C17: where the alias table exists, for a pad index whose alias entry is -1
\* XInput's button, axis, state, query_pad and set_rumble make exactly one call,
\* to DirectInput's matching operation for the same pad index, return what it
\* returned and read no XInput state entry; for a pad index whose alias entry
\* is >= 0 they never call DirectInput.
C17_AliasDecidesBackend ==
    (HAVE_DINPUT /\ op.name \in DOMAIN ForwardingOps /\ op.pad \in WinPadIdx) =>
       IF g_xinput_pad_indexes[op.pad] = NOT_XINPUT
       THEN /\ Len(calls) = 1
            /\ calls[1].fn = ForwardingOps[op.name]
            /\ calls[1].pad = op.pad
            /\ ret = calls[1].result
            /\ \A r \in reads : r[1] # "g_xinput_states"
       ELSE \A i \in 1..Len(calls) : calls[i].fn \notin DInputFns

\* a button query on a pad without alias came back pressed from DirectInput
C17_Witness ==
    /\ HAVE_DINPUT
    /\ op.name = "xinput_joypad_button"
    /\ op.pad \in WinPadIdx
    /\ g_xinput_pad_indexes[op.pad] = NOT_XINPUT
    /\ ret = 1

\* the slots whose device the last operation polled through DirectInput, and
\* the XInput users it asked XInput about
DInputPolls == {i \in WinPadIdx : <<"IDirectInputDevice8_Poll", i>> \in reads}
XInputPolls == {i \in XUsers : <<"XInputGetState", i>> \in reads}

\* in a poll tick DirectInput neither polls nor reports the loss of a pad
\* index whose alias entry is >= 0
AliasedSkipped ==
    \A i \in WinPadIdx :
       g_xinput_pad_indexes[i] >= 0 =>
          /\ i \notin DInputPolls
          /\ \A k \in DOMAIN calls :
                ~(IsDisconnectNote(calls[k]) /\ calls[k].by = "dinput"
                  /\ calls[k].index = i)

\* C18: in every poll tick DirectInput skips every pad index whose alias entry
\* is >= 0 (no poll, no disconnect notification), so that every enumerated
\* device is polled by exactly one of the two backends.
C18_OneBackendPerDevice ==
    (HAVE_DINPUT /\ op.name = "xinput_joypad_poll") =>
       /\ AliasedSkipped
       /\ \A i \in WinPadIdx :
             g_pads[i].joypad # NO_DEVICE =>
                ((g_pads[i].joypad \in XInputPolls) # (i \in DInputPolls))

\* C19: after a poll tick returns, the cached snapshot of every connected
\* XInput user equals the hardware state of that tick, also in a tick in
\* which a device reconnected.
C19_SnapshotFreshAfterPoll ==
    op.name = "xinput_joypad_poll" =>
       \A i \in XUsers :
          g_xinput_states[i].connected => g_xinput_states[i].xstate = HwState(i)

\* the queries a frame asks between two poll ticks
SnapshotQueries ==
    {"xinput_joypad_button", "xinput_joypad_axis", "xinput_joypad_state",
     "xinput_joypad_query_pad", "xinput_joypad_name",
     "apple_joypad_button", "apple_joypad_axis", "apple_joypad_query_pad",
     "apple_joypad_name"}

\* the pad is served from XInput's own table
OwnedByXInput(pad) ==
    pad \in WinPadIdx /\ pad_index_to_xuser_index(CurW, pad) \in XUsers

\* the query named by o is answered from the driver's own tables: its pad is
\* in range and it is not handed over to DirectInput
AnsweredFromTables(o) ==
    IF o.name \in {"apple_joypad_button", "apple_joypad_axis",
                   "apple_joypad_query_pad", "apple_joypad_name"}
    THEN o.pad \in PadIdx
    ELSE IF o.name \in {"xinput_joypad_query_pad", "xinput_joypad_name"}
    THEN o.pad \in WinPadIdx
    ELSE OwnedByXInput(o.pad)

\* C20: a button, axis, state, query_pad or name call leaves the cached
\* snapshots and connected flags (and the tables that say whose they are)
\* unchanged, and the same query asked again right after it, answered from
\* the driver's own tables, returns the same value.
C20_QueriesKeepSnapshots ==
    [][op'.name \in SnapshotQueries =>
          /\ UNCHANGED <<g_xinput_states, g_xinput_pad_indexes, g_pads,
                         slots, apple_buttons, apple_axes>>
          /\ (op.name = op'.name /\ op.pad = op'.pad /\ op.arg = op'.arg
              /\ AnsweredFromTables(op)) => ret' = ret]_vars

\* a button query of a pad that XInput owns found the button pressed in the
\* cached snapshot
C20_Witness ==
    /\ op.name = "xinput_joypad_button"
    /\ OwnedByXInput(op.pad)
    /\ ret = 1

\* the slots whose first poll failed in the last tick
PollFailed == {i \in WinPadIdx : <<"IDirectInputDevice8_Poll failed", i>> \in reads}

\* C21: when a device poll fails in dinput_joypad_poll, the tick re-acquires
\* the device and polls it again, and when that second poll fails too the pad
\* is reported disconnected by a disconnect notification.
C21_RetryThenDisconnect ==
    (HAVE_DINPUT /\ op.name = "xinput_joypad_poll") =>
       \A i \in PollFailed :
          /\ <<"IDirectInputDevice8_Acquire", i>> \in reads
          /\ <<"IDirectInputDevice8_Acquire failed", i>> \notin reads =>
                <<"IDirectInputDevice8_Poll again", i>> \in reads
          /\ <<"IDirectInputDevice8_Poll again failed", i>> \in reads =>
                \E k \in DOMAIN calls :
                   /\ IsDisconnectNote(calls[k])
                   /\ calls[k].by = "dinput"
                   /\ calls[k].index = i

\* the positions in cs of calls of the backend function fn
CallsOf(cs, fn) == {k \in DOMAIN cs : cs[k].fn = fn}

\* C22: a backend data handle never outlives its pad: a handle a backend's
\* connect returned is held by a slot, a slot gives its handle up only through
\* exactly one disconnect call with it, and packet_handler, set_rumble and
\* disconnect are only called with the handle of an occupied slot.
C22_HandleNeverOutlivesPad ==
    [][build = "apple_ios" =>
          /\ \A k \in CallsOf(calls', "connect") :
                calls'[k].h # NoHandle =>
                   \E i \in PadIdx : slots'[i].used /\ slots'[i].data = calls'[k].h
          /\ \A i \in PadIdx :
                (slots[i].data # NoHandle /\ slots'[i].data # slots[i].data) =>
                   Cardinality({k \in CallsOf(calls', "disconnect") :
                                   calls'[k].h = slots[i].data}) = 1
          /\ \A k \in CallsOf(calls', "packet_handler")
                      \cup CallsOf(calls', "set_rumble")
                      \cup CallsOf(calls', "disconnect") :
                \E i \in PadIdx : slots[i].used /\ slots[i].data = calls'[k].h]_vars

\* C23: one call of joypad_connection_connect invokes connect on at most one
\* backend interface, so the handle the slot stores is the only one created
\* for it.
C23_OneBackendConnect ==
    op.name = "joypad_connection_connect" =>
       Cardinality(CallsOf(calls, "connect")) <= 1

\* C24: a pad index is a stable identity while its connection lasts: a
\* connect leaves every occupied slot as it is, and the index it returns is
\* the lowest unoccupied one (so never that of an occupied slot), or -1 when
\* there is none.
C24_StablePadIdentity ==
    [][IsConnect(op') =>
          /\ \A i \in PadIdx : slots[i].used => slots'[i] = slots[i]
          /\ ret' = (IF VacantPads = {} THEN NO_PAD ELSE Lowest(VacantPads))
          /\ ret' \in PadIdx => ~slots[ret'].used]_vars

\* a connect has reused slot 0 after its release, while the connection in
\* slot 1 went on with its backend handle
C24_Witness ==
    /\ IsConnect(op)
    /\ ret = 0
    /\ slots[1].used
    /\ slots[1].data # NoHandle

\* C25: the XInput button, axis, state, query_pad and rumble operations index
\* the 4-entry XInput tables only with an index in 0..3: the -1 that
\* pad_index_to_xuser_index returns is never used as a table index.
C25_TableIndexInRange ==
    op.name \in DOMAIN ForwardingOps =>
       \A r \in reads : r[1] = "g_xinput_states" => r[2] \in XUsers

\* the positions in calls of the connect notifications for pad index j
ConnectNotesFor(j) == {k \in DOMAIN calls : IsConnectNote(calls[k]) /\ calls[k].index = j}

\* C26: after a successful combined XInput+DirectInput init every slot the
\* enumeration filled has received exactly one connect notification, from the
\* backend that owns it (XInput for an aliased slot, DirectInput otherwise),
\* and no notification was sent for a slot without device.
C26_OneConnectNotePerSlot ==
    (HAVE_DINPUT /\ op.name = "xinput_joypad_init" /\ ret = 1) =>
       \A j \in WinPadIdx :
          IF g_pads[j].joypad # NO_DEVICE
          THEN /\ Cardinality(ConnectNotesFor(j)) = 1
               /\ \A k \in ConnectNotesFor(j) :
                     calls[k].by = (IF g_xinput_pad_indexes[j] >= 0
                                    THEN "xinput" ELSE "dinput")
          ELSE ConnectNotesFor(j) = {}

\* C27: a poll tick sends no connect notification for a pad that was
\* connected before the tick and still is: a pad that stayed connected is not
\* announced again because another pad reconnected.
C27_NoRepeatedConnectNote ==
    [][op'.name = "xinput_joypad_poll" =>
          \A i \in XUsers :
             (g_xinput_states[i].connected /\ i \in attached) =>
                \A k \in DOMAIN calls' :
                   ~(/\ IsConnectNote(calls'[k])
                     /\ calls'[k].index \in SlotsOfXUser(g_xinput_pad_indexes', i))]_vars

====
